---------------------------- MODULE Spec2Model ----------------------------
(***************************************************************************)
(* Bluestreak: durable workflow execution on a document store.            *)
(*                                                                         *)
(* The model follows src/index.js (single-document storage: step outputs  *)
(* and nap wake-times are fields of the instance document, written with   *)
(* $set) and the three-collection variant kept in src/index.test.js lines *)
(* 630-1296 (steps and naps in their own collections, written with        *)
(* $setOnInsert upserts).  cfg.variant selects the storage variant.       *)
(*                                                                         *)
(* Every store call is one atomic action.  A Date read that the code makes *)
(* in the synchronous block that issues a store call is taken by the      *)
(* action that ends the preceding await, and kept in a local field until   *)
(* the store call is applied, as in the code.                              *)
(*                                                                         *)
(* Time is counted in ticks; one tick stands for waitRetryInterval.       *)
(***************************************************************************)
EXTENDS Integers, Sequences, FiniteSets, TLC

VARIABLES
    now,        \* the wall clock (new Date().getTime()), in ticks
    cfg,        \* constructor parameters and the deployment under study
    workflows,  \* the workflows collection: workflowId -> instance document
    steps,      \* step outputs: steps.<stepId> of the document / steps collection
    naps,       \* nap wake-times: naps.<napId> of the document / naps collection
    poller,     \* one poll() invocation per worker process
    runs,       \* the dispatched #run invocations, in dispatch order
    client,     \* the calls of start and wait a client has made
    obsv        \* observations of the behaviour so far (history, not program state)

vars == <<now, cfg, workflows, steps, naps, poller, runs, client, obsv>>

-----------------------------------------------------------------------------
(* Bounds of the model *)

\* The clock stops advancing at MaxTime: long enough for one lease to expire
\* and the instance to be claimed a second time.
MaxTime == 4

\* The clock's bound where two workers race for a claim: long enough for a
\* failed instance to be due again.
ClaimTime == 3

\* At most MaxRuns runs are dispatched in one behaviour.
MaxRuns == 2

\* The same two bounds for the deployments that follow an instance through
\* three runs: an expired lease, a failure and the retry after it.
LongTime == 6
LongRuns == 3

\* The runs followed where an instance is retried until it is aborted and a
\* superseded run writes after that.
AbortRuns == 4

\* The clock's bound where a replayed sleep is followed to its end while two
\* earlier runs are still about to write their wake instants.
NapTime == 8

\* Clients call start() no later than this instant.
StartBy == 0

\* The largest retries argument of wait.
MaxRetries == 2

-----------------------------------------------------------------------------
(* Configuration, in ticks *)

\* params.timeoutInterval: the lease a claim or a step grants.
TimeoutInterval == 2

\* params.pollInterval: the idle sleep of the poll loop.
PollInterval == 1

\* params.waitRetryInterval: the delay before a failed instance is due again.
WaitRetryInterval == 1

\* The ms argument the napping handler passes to ctx.sleep.
SleepMs == 1

\* The ms argument of a handler whose sleep is as long as a lease.
LongSleepMs == 2

\* The ms argument of a handler whose sleep outlasts the lease of the claim
\* that follows the first one.
DeepSleepMs == 7

\* The pauseInterval argument of wait.
PauseInterval == 1

-----------------------------------------------------------------------------
(* Value spaces *)

WorkflowIds == {"w1", "w2"}
PollerIds == {"p1", "p2"}
StepIds == {"s1", "s2"}
NapIds == {"n1"}

\* What a step's fn may return (fn is free to be non-deterministic).
Outputs == {1, 2}

\* undefined / absent, for step outputs and wake-times.
Undefined == 0

Statuses == {"idle", "running", "failed", "aborted", "finished"}

\* The handler ids a workflow may name.  "missing" is never registered.
HandlerIds ==
    {"hOk", "hFail", "hFlaky", "hSteps", "hStepFail", "hNap", "hLongNap",
     "hDeepNap", "missing"}

\* #handlers after the registerHandler calls made before poll().
Registered ==
    {"hOk", "hFail", "hFlaky", "hSteps", "hStepFail", "hNap", "hLongNap",
     "hDeepNap"}

\* The body of each registered handler, as the sequence of its context calls.
\*   hOk    : async () => "result"
\*   hFail  : async () => { throw new Error(...) }
\*   hFlaky : let first = true;
\*            async () => { if (first) { first = false; throw new Error(...) }
\*                          return "result" }
\*   hSteps : async (ctx) => [await ctx.step("s1", fn), await ctx.step("s2", fn)]
\*   hStepFail : async (ctx) => { await ctx.step("s1", fn); throw new Error(...) }
\*   hNap   : async (ctx) => { await ctx.sleep("n1", SleepMs); return [] }
\*   hLongNap : async (ctx) => { await ctx.sleep("n1", LongSleepMs); return [] }
\*   hDeepNap : async (ctx) => { await ctx.sleep("n1", DeepSleepMs); return [] }
HandlerBody(h) ==
    CASE h = "hOk"    -> << >>
      [] h = "hFail"  -> << [op |-> "throw", id |-> "-", ms |-> 0] >>
      [] h = "hFlaky" -> << [op |-> "throwOnce", id |-> "-", ms |-> 0] >>
      [] h = "hSteps" -> << [op |-> "step", id |-> "s1", ms |-> 0],
                            [op |-> "step", id |-> "s2", ms |-> 0] >>
      [] h = "hStepFail" -> << [op |-> "step", id |-> "s1", ms |-> 0],
                               [op |-> "throw", id |-> "-", ms |-> 0] >>
      [] h = "hNap"   -> << [op |-> "sleep", id |-> "n1", ms |-> SleepMs] >>
      [] h = "hLongNap" -> << [op |-> "sleep", id |-> "n1", ms |-> LongSleepMs] >>
      [] h = "hDeepNap" -> << [op |-> "sleep", id |-> "n1", ms |-> DeepSleepMs] >>
      [] OTHER        -> << >>

\* Errors, as their name and the id they carry.
NoError == [name |-> "-", arg |-> "-"]
WorkflowNotFound(workflowId) == [name |-> "WorkflowNotFound", arg |-> workflowId]
HandlerNotFound(handlerId) == [name |-> "HandlerNotFound", arg |-> handlerId]

\* What a configured error callback throws when it throws.
CallbackError == [name |-> "CallbackError", arg |-> "-"]

\* What the driver throws when a call does not reach the store.
StoreError == [name |-> "MongoNetworkError", arg |-> "-"]

WorkflowAlreadyStarted(workflowId) == [name |-> "WorkflowAlreadyStarted", arg |-> workflowId]
WaitTimeout(workflowId) == [name |-> "WaitTimeout", arg |-> workflowId]

\* The errors poll's contract calls infrastructure failures.
IsInfra(err) == err.name \in {"WorkflowNotFound", "HandlerNotFound"}

\* An absent document of the workflows collection.
NoDoc ==
    [exists |-> FALSE, handlerId |-> "-", failures |-> 0, status |-> "-",
     timeoutAt |-> 0, hasResult |-> FALSE, result |-> << >>]

\* The locals of a #run invocation that are not in use.
NoLocals ==
    [output |-> Undefined, timeoutAt |-> 0, wakeUpAt |-> 0, timer |-> 0,
     status |-> "-", failures |-> 0]


-----------------------------------------------------------------------------
(* The store gateway: each operator is one call on a collection *)

\* #insert: insertOne of a fresh instance document.
Insert(wfs, w, h) ==
    [wfs EXCEPT ![w] =
        [exists |-> TRUE, handlerId |-> h, failures |-> 0, status |-> "idle",
         timeoutAt |-> now, hasResult |-> FALSE, result |-> << >>]]

\* An insert that replaces the document of an id that is taken.
InsertReplaces(wfs, w, h) == Insert(wfs, w, h)

\* #insert for an id that is taken: insertOne fails on the unique index of
\* id (error 11000) and leaves the collection as it is.
InsertDuplicate(wfs, w, h) == wfs

\* A filter of #claim that matches instances never claimed before only.
ClaimFilterIdleOnly(doc, claimNow) ==
    /\ doc.exists
    /\ doc.status = "idle"
    /\ doc.timeoutAt < claimNow

\* A filter of #claim that also matches a lease ending at `now`.
ClaimFilterNotStrict(doc, claimNow) ==
    /\ doc.exists
    /\ doc.status \in {"idle", "running", "failed"}
    /\ doc.timeoutAt <= claimNow

\* A filter of #claim that leaves failed instances out.
ClaimFilterNoRetry(doc, claimNow) ==
    /\ doc.exists
    /\ doc.status \in {"idle", "running"}
    /\ doc.timeoutAt < claimNow

\* The filter of #claim's findOneAndUpdate, for the `now` the caller read.
ClaimFilter(doc, claimNow) ==
    /\ doc.exists
    /\ doc.status \in {"idle", "running", "failed"}
    /\ doc.timeoutAt < claimNow

\* The documents the filter of #claim matches.
Due(wfs, claimNow) == {w \in WorkflowIds : ClaimFilter(wfs[w], claimNow)}

\* A #claim whose $set forgets the new lease.
ClaimUpdateWithoutLease(wfs, w, claimNow) ==
    [wfs EXCEPT ![w].status = "running"]

\* The $set of #claim's findOneAndUpdate, applied to the matched document.
ClaimUpdate(wfs, w, claimNow) ==
    [wfs EXCEPT ![w].status = "running",
                ![w].timeoutAt = claimNow + TimeoutInterval]

\* A #setAsFinished that clears the failure count.
SetAsFinishedResetsFailures(wfs, w, result) ==
    IF wfs[w].exists
    THEN [wfs EXCEPT ![w].status = "finished",
                     ![w].hasResult = TRUE,
                     ![w].result = result,
                     ![w].failures = 0]
    ELSE wfs

\* #setAsFinished: updateOne {id} $set {status, result}.
SetAsFinished(wfs, w, result) ==
    IF wfs[w].exists
    THEN [wfs EXCEPT ![w].status = "finished",
                     ![w].hasResult = TRUE,
                     ![w].result = result]
    ELSE wfs

\* #updateStatus: updateOne {id} $set {status, timeoutAt, failures}.
UpdateStatus(wfs, w, status, timeoutAt, failures) ==
    IF wfs[w].exists
    THEN [wfs EXCEPT ![w].status = status,
                     ![w].timeoutAt = timeoutAt,
                     ![w].failures = failures]
    ELSE wfs

\* A lease write that writes nothing.
SetTimeoutAtNever(wfs, w, timeoutAt) == wfs

\* The timeoutAt part of #updateOutput / #updateWakeUpAt, and #updateTimeoutAt
\* of the three-collection variant: updateOne {id} $set {timeoutAt}.
SetTimeoutAt(wfs, w, timeoutAt) ==
    IF wfs[w].exists
    THEN [wfs EXCEPT ![w].timeoutAt = timeoutAt]
    ELSE wfs

\* The steps.<stepId> part of #updateOutput: a $set on the instance document.
SetOutput(wfs, st, w, stepId, output) ==
    IF wfs[w].exists
    THEN [st EXCEPT ![w][stepId] = output]
    ELSE st

\* #insertStep of the three-collection variant: upsert with $setOnInsert.
InsertStep(st, w, stepId, output) ==
    IF st[w][stepId] = Undefined
    THEN [st EXCEPT ![w][stepId] = output]
    ELSE st

\* A nap write that writes nothing.
SetWakeUpAtNever(wfs, np, w, napId, wakeUpAt) == np

\* The naps.<napId> part of #updateWakeUpAt: a $set on the instance document.
SetWakeUpAt(wfs, np, w, napId, wakeUpAt) ==
    IF wfs[w].exists
    THEN [np EXCEPT ![w][napId] = wakeUpAt]
    ELSE np

\* #insertNap of the three-collection variant: upsert with $setOnInsert.
InsertNap(np, w, napId, wakeUpAt) ==
    IF np[w][napId] = Undefined
    THEN [np EXCEPT ![w][napId] = wakeUpAt]
    ELSE np

-----------------------------------------------------------------------------
(* The poll loop *)

\* A loop condition of wait that allows one probe more than retries.
WaitGoesOnOnceMore(i, retries) == i <= retries

\* The condition of wait's for loop.
WaitGoesOn(i, retries) == i < retries

\* The head of poll's while loop: shouldStop() is evaluated and, when it is
\* false, #claim is entered and reads `now` before it awaits the store.
LoopHead(ps, stop) ==
    IF stop
    THEN [ps EXCEPT !.pc = "exited", !.claimNow = 0, !.wake = 0,
                    !.promise = IF @ = "pending" THEN "resolved" ELSE @]
    ELSE [ps EXCEPT !.pc = "claiming", !.claimNow = now, !.wake = 0]

\* What params.shouldStop may answer when the loop asks: the callback of the
\* deployment either never stops the loop or may stop it at any check.
ShouldStop == IF cfg.mayStop THEN BOOLEAN ELSE {FALSE}

\* An exception leaves the async executor poll hands to `new Promise`: the
\* promise the executor returns is rejected with it, which the Promise
\* constructor ignores; neither resolve nor reject is called and the loop is
\* gone.
ExecutorThrows(ps, err) == [ps EXCEPT !.pc = "unhandled", !.claimNow = 0]

\* The .catch callback poll attaches to a dispatched run.
OnRunRejected(ps, err) ==
    IF ps.hasRejected
    THEN ps
    ELSE [ps EXCEPT !.hasRejected = TRUE,
                    !.promise = IF @ = "pending" THEN "rejected" ELSE @,
                    !.error = IF ps.promise = "pending" THEN err ELSE @]

\* A run as #run(workflowId) leaves it at its first await (findRunData).
NewRun(p, w) ==
    [p |-> p, w |-> w, pc |-> "findRunData", handlerId |-> "-", failures |-> 0,
     ip |-> 0, obs |-> << >>, loc |-> NoLocals, threw |-> FALSE,
     error |-> NoError]


-----------------------------------------------------------------------------
(* The runner and the workflow context *)

\* The context call the handler of `run` is at.
CurOp(run) == HandlerBody(run.handlerId)[run.ip]

\* A catch block that never aborts.
CatchNeverAborts(run) ==
    [run EXCEPT !.pc = "updateStatus",
                !.threw = TRUE,
                !.loc = [NoLocals EXCEPT
                    !.failures = run.failures + 1,
                    !.status = "failed",
                    !.timeoutAt = now + WaitRetryInterval]]

\* A runner that swallows what the handler throws and finishes the run.
CatchSwallows(run) == [run EXCEPT !.pc = "setAsFinished"]

\* The catch block of #run up to its await: the new failures count, the new
\* status and the retry instant are computed, and #updateStatus is issued.
Catch(run) ==
    [run EXCEPT !.pc = "updateStatus",
                !.threw = TRUE,
                !.loc = [NoLocals EXCEPT
                    !.failures = run.failures + 1,
                    !.status = IF cfg.maxFailures.set
                                  /\ run.failures + 1 > cfg.maxFailures.n
                               THEN "aborted" ELSE "failed",
                    !.timeoutAt = now + WaitRetryInterval]]

\* The handler runs on from its context call number run.ip to its next await:
\* the store read of a step or a sleep, a throw, or its return.
Resume(run) ==
    IF run.ip > Len(HandlerBody(run.handlerId))
    THEN [run EXCEPT !.pc = "setAsFinished", !.loc = NoLocals]
    ELSE CASE CurOp(run).op = "throw" -> Catch(run)
           [] CurOp(run).op = "step"  -> [run EXCEPT !.pc = "findOutput",
                                                     !.loc = NoLocals]
           [] CurOp(run).op = "sleep" -> [run EXCEPT !.pc = "findWakeUpAt",
                                                     !.loc = NoLocals]

\* The handler of `run` is invoked and runs to its first await.  A handler
\* that throws on its first call in the worker process does so when
\* firstCall is true, and returns otherwise.
Invoke(run, firstCall) ==
    IF /\ Len(HandlerBody(run.handlerId)) > 0
       /\ HandlerBody(run.handlerId)[1].op = "throwOnce"
    THEN IF firstCall THEN Catch(run)
                      ELSE Resume([run EXCEPT !.ip = @ + 1])
    ELSE Resume(run)

\* A step that takes no recorded output for one.
CachedNever(output) == FALSE

\* The test #step makes on what #findOutput answered: a recorded output is
\* anything but undefined.
Cached(output) == output # Undefined

\* ctx.step returns `output` to the handler, which keeps it for its result.
StepReturns(run, output) ==
    Resume([run EXCEPT !.obs = Append(@, output), !.ip = @ + 1])

\* A sleep that takes no recorded wake instant for one.
NappedNever(wakeUpAt) == FALSE

\* The test #sleep makes on what #findWakeUpAt answered: `if (wakeUpAt)`.
Napped(wakeUpAt) == wakeUpAt # Undefined

\* ctx.sleep returns to the handler.
SleepReturns(run) ==
    Resume([run EXCEPT !.ip = @ + 1])

-----------------------------------------------------------------------------
(* Initial state: after the constructor, registerHandler and init() *)

\* A deployment: the constructor parameters (maxFailures, errorCallback,
\* shouldStop), the storage variant, the start() calls clients may make (pairs
\* of a workflowId and a handlerId), the workers that poll, and the bounds.
Scenario(variant, mfSet, mfN, callback, mayStop, starts, pollers, maxTime, maxRuns) ==
    [variant |-> variant, maxFailures |-> [set |-> mfSet, n |-> mfN],
     errorCallback |-> callback, mayStop |-> mayStop, starts |-> starts,
     pollers |-> pollers, maxTime |-> maxTime, maxRuns |-> maxRuns]

Variants == {"single", "three"}

\* Two workers, two instances, handlers that return or throw at once.
ClaimScenarios ==
    {Scenario("single", FALSE, 0, "unset", FALSE,
              {<<"w1", "hFail">>, <<"w2", "hOk">>}, {"p1", "p2"},
              ClaimTime, MaxRuns)}

\* One worker, one instance whose handler makes two step calls.
StepScenarios ==
    {Scenario(v, FALSE, 0, "unset", FALSE, {<<"w1", "hSteps">>}, {"p1"},
              MaxTime, MaxRuns) : v \in Variants}

\* One worker, one instance whose handler records a step and then throws,
\* followed through three runs.
RetryScenarios ==
    {Scenario(v, FALSE, 0, "unset", FALSE, {<<"w1", "hStepFail">>}, {"p1"},
              LongTime, LongRuns) : v \in Variants}

\* The same, followed up to the first replay of the recorded step.
CacheScenarios ==
    {Scenario(v, FALSE, 0, "unset", FALSE, {<<"w1", "hStepFail">>}, {"p1"},
              ClaimTime, MaxRuns) : v \in Variants}

\* One worker, one instance whose handler sleeps once.
NapScenarios ==
    {Scenario(v, FALSE, 0, "unset", FALSE, {<<"w1", "hNap">>}, {"p1"},
              MaxTime, MaxRuns) : v \in Variants}

\* One worker, one instance whose handler sleeps for as long as a lease
\* lasts, followed up to the first replay of the sleep.
ResumeScenarios ==
    {Scenario(v, FALSE, 0, "unset", FALSE, {<<"w1", "hLongNap">>}, {"p1"},
              MaxTime, MaxRuns) : v \in Variants}

\* One worker, an instance whose handler sleeps and an instance whose handler
\* returns at once.
DispatchScenarios ==
    {Scenario(v, FALSE, 0, "unset", FALSE,
              {<<"w1", "hNap">>, <<"w2", "hOk">>}, {"p1"},
              ClaimTime, MaxRuns) : v \in Variants}

\* One worker, one instance whose handler throws on its first call and
\* returns on the second, no abort threshold.
FlakyScenarios ==
    {Scenario("single", FALSE, 0, "unset", FALSE, {<<"w1", "hFlaky">>}, {"p1"},
              ClaimTime, MaxRuns)}

\* One worker, one instance whose handler always throws, with maxFailures
\* unset or 1, followed through two runs.
AbortScenarios ==
    {Scenario("single", mf, 1, "unset", FALSE, {<<"w1", "hFail">>}, {"p1"},
              ClaimTime, MaxRuns) : mf \in BOOLEAN}

\* One worker, one instance whose handler always throws, maxFailures = 1,
\* with no error callback or with one that throws.
FailScenarios ==
    {Scenario("single", TRUE, 1, cb, FALSE, {<<"w1", "hFail">>}, {"p1"},
              LongTime, AbortRuns) : cb \in {"unset", "throws"}}

\* One worker whose shouldStop may answer true, an instance that names a
\* handler nobody registered and an instance whose document may be removed.
InfraScenarios ==
    {Scenario("single", FALSE, 0, "unset", TRUE,
              {<<"w1", "missing">>, <<"w2", "hOk">>}, {"p1"},
              MaxTime, MaxRuns)}

\* The same, followed through three runs.
LongNapScenarios ==
    {Scenario(v, FALSE, 0, "unset", FALSE, {<<"w1", "hNap">>}, {"p1"},
              LongTime, LongRuns) : v \in Variants}

\* One worker, one instance whose handler sleeps for as long as a lease,
\* followed through three runs.
LongSleepScenarios ==
    {Scenario(v, FALSE, 0, "unset", FALSE, {<<"w1", "hLongNap">>}, {"p1"},
              NapTime, LongRuns) : v \in Variants}

\* Three collections, two workers one of which may die, one instance whose
\* handler sleeps for longer than three leases last.
DeepNapScenarios ==
    {Scenario("three", FALSE, 0, "unset", FALSE, {<<"w1", "hDeepNap">>},
              {"p1", "p2"}, NapTime, LongRuns)}

\* One worker that never stops, one instance whose handler throws on its
\* first call and returns afterwards, maxFailures = 1.
LiveScenarios ==
    {Scenario("single", TRUE, 1, "unset", FALSE,
              {<<"w1", "hFlaky">>, <<"w2", "hOk">>}, {"p1"}, LongTime, LongRuns)}

\* Two workers, one of which may die, and a handler that fails on the first
\* call each worker makes of it; no abort threshold.
CrashScenarios ==
    {Scenario("single", FALSE, 0, "unset", FALSE, {<<"w1", "hFlaky">>},
              {"p1", "p2"}, LongTime, AbortRuns)}

\* One worker and one instance whose handler returns, or throws and is
\* aborted by its first failure; a client that starts the id again and waits
\* for it.
ClientScenarios ==
    {Scenario("single", TRUE, 0, "unset", FALSE, {<<"w1", h>>}, {"p1"},
              MaxTime, MaxRuns) : h \in {"hOk", "hFail"}}

\* One worker whose shouldStop may answer true at any check and whose store
\* may fail a claim; an instance whose handler throws and one whose handler
\* returns, with no error callback or with one that throws.
StopScenarios ==
    {Scenario("single", FALSE, 0, cb, TRUE,
              {<<"w1", "hFail">>, <<"w2", "hOk">>}, {"p1"},
              MaxTime, MaxRuns) : cb \in {"unset", "throws"}}

Scenarios ==
    ClaimScenarios \cup StepScenarios \cup RetryScenarios \cup NapScenarios
        \cup FailScenarios \cup InfraScenarios \cup LongNapScenarios
        \cup LongSleepScenarios \cup LiveScenarios \cup CrashScenarios
        \cup ClientScenarios \cup StopScenarios
        \cup CacheScenarios \cup ResumeScenarios \cup AbortScenarios
        \cup FlakyScenarios \cup DispatchScenarios \cup DeepNapScenarios

\* Nothing has been observed yet.
\* No call of wait has been made.
NoWait ==
    [pc |-> "none", w |-> "-", retries |-> 0, i |-> 0, wake |-> 0,
     value |-> << >>, error |-> NoError]

NoObservations ==
    [race |-> [st |-> "off", w |-> "-",
               res |-> [p \in PollerIds |-> "pending"]],
     aborted |-> {},
     firstErr |-> [p \in PollerIds |-> NoError],
     atStart |-> << >>,
     invoked |-> << >>,
     probes |-> << >>]

InitFor(scenarios) ==
    /\ cfg \in scenarios
    /\ now = 0
    /\ workflows = [w \in WorkflowIds |-> NoDoc]
    /\ steps = [w \in WorkflowIds |-> [s \in StepIds |-> Undefined]]
    /\ naps = [w \in WorkflowIds |-> [n \in NapIds |-> Undefined]]
    /\ poller = [p \in PollerIds |->
                    [pc |-> "start", claimNow |-> 0, wake |-> 0,
                     hasRejected |-> FALSE, promise |-> "none",
                     error |-> NoError, firstCall |-> TRUE]]
    /\ runs = << >>
    /\ client = [startErr |-> [w \in WorkflowIds |-> NoError], wait |-> NoWait]
    /\ obsv = NoObservations

Init == InitFor(Scenarios)

-----------------------------------------------------------------------------
(* Actions *)

\* The clock advances.
Tick ==
    /\ now < cfg.maxTime
    /\ now' = now + 1
    /\ UNCHANGED <<cfg, workflows, steps, naps, poller, runs, client>>

\* Time passes while nothing is in flight: every store call and every
\* continuation that is ready completes before the clock reads a new value.
\* Under this scheduling no lease expires under a run that is making
\* progress.
Quiet ==
    /\ \A p \in cfg.pollers :
          \/ poller[p].pc \in {"exited", "dead"}
          \/ poller[p].pc = "sleeping" /\ now < poller[p].wake
    /\ \A r \in DOMAIN runs : runs[r].pc \in {"done", "rejected", "dead"}

TickQuiet == Quiet /\ Tick

\* Time passes only while every loop and every run waits for a timer: each
\* store call is answered, and each continuation that is ready runs, in the
\* instant in which it is issued.
Settled ==
    /\ \A p \in cfg.pollers :
          \/ poller[p].pc \in {"exited", "dead"}
          \/ poller[p].pc = "sleeping" /\ now < poller[p].wake
    /\ \A r \in DOMAIN runs :
          \/ runs[r].pc \in {"done", "rejected", "dead"}
          \/ runs[r].pc = "goSleep" /\ now < runs[r].loc.timer

TickSettled == Settled /\ Tick

\* The process of worker p dies: its poll loop and the runs it has in flight
\* stop where they are, and whatever they wrote stays in the store. Another
\* worker stays alive.
Die(p) ==
    /\ poller[p].pc # "dead"
    /\ \E q \in cfg.pollers \ {p} : poller[q].pc # "dead"
    /\ poller' = [poller EXCEPT ![p].pc = "dead"]
    /\ runs' = [r \in DOMAIN runs |->
                   IF runs[r].p = p /\ runs[r].pc \notin {"done", "rejected"}
                   THEN [runs[r] EXCEPT !.pc = "dead"]
                   ELSE runs[r]]
    /\ UNCHANGED <<now, cfg, workflows, steps, naps, client>>

\* start(workflowId, handlerId, input) for an id that is free.
Start(w, h) ==
    /\ now <= StartBy
    /\ ~workflows[w].exists
    /\ workflows' = Insert(workflows, w, h)
    /\ UNCHANGED <<now, cfg, steps, naps, poller, runs, client>>

\* start(workflowId, handlerId, input) for an id that is taken: insertOne
\* fails on the unique index of id with error 11000 and writes nothing; start
\* rethrows it as WorkflowAlreadyStarted.
StartExisting(w, h) ==
    /\ workflows[w].exists
    /\ client.startErr[w] = NoError
    /\ workflows' = InsertDuplicate(workflows, w, h)
    /\ client' = [client EXCEPT !.startErr[w] = WorkflowAlreadyStarted(w)]
    /\ UNCHANGED <<now, cfg, steps, naps, poller, runs>>

\* The head of wait's for loop with counter i: the next probe is issued, or
\* the loop is over and WaitTimeout is thrown.
WaitLoopHead(ws, i) ==
    IF WaitGoesOn(i, ws.retries)
    THEN [ws EXCEPT !.pc = "probing", !.i = i, !.wake = 0]
    ELSE [ws EXCEPT !.pc = "threw", !.i = i, !.wake = 0,
                    !.error = WaitTimeout(ws.w)]

\* wait(workflowId, retries, pauseInterval) is called.
Wait(w, retries) ==
    /\ client.wait.pc = "none"
    /\ client' = [client EXCEPT
                     !.wait = WaitLoopHead([@ EXCEPT !.w = w,
                                                     !.retries = retries], 0)]
    /\ UNCHANGED <<now, cfg, workflows, steps, naps, poller, runs>>

\* #findStatusAndResult answers a probe of wait: WorkflowNotFound without a
\* document, the result if the status is finished, a pause otherwise.
WaitFindStatusAndResult ==
    /\ client.wait.pc = "probing"
    /\ LET doc == workflows[client.wait.w]
       IN  client' = [client EXCEPT !.wait =
                IF ~doc.exists
                THEN [@ EXCEPT !.pc = "threw",
                               !.error = WorkflowNotFound(client.wait.w)]
                ELSE IF doc.status = "finished"
                THEN [@ EXCEPT !.pc = "returned", !.value = doc.result]
                ELSE [@ EXCEPT !.pc = "sleeping",
                               !.wake = now + PauseInterval]]
    /\ UNCHANGED <<now, cfg, workflows, steps, naps, poller, runs>>

\* The pause between two probes of wait ends.
WaitWakes ==
    /\ client.wait.pc = "sleeping"
    /\ now >= client.wait.wake
    /\ client' = [client EXCEPT !.wait = WaitLoopHead(@, @.i + 1)]
    /\ UNCHANGED <<now, cfg, workflows, steps, naps, poller, runs>>

\* The document of an instance is gone from the store when a run looks for
\* it (the tests make findOne answer null): the engine has no call that
\* removes a document, an operator does it.
Remove(w) ==
    /\ workflows[w].exists
    /\ workflows' = [workflows EXCEPT ![w] = NoDoc]
    /\ UNCHANGED <<now, cfg, steps, naps, poller, runs, client>>

\* poll() is called: the loop is entered for the first time.
Poll(p) ==
    /\ poller[p].pc = "start"
    /\ \E stop \in ShouldStop :
          poller' = [poller EXCEPT
                        ![p] = LoopHead([@ EXCEPT !.promise = "pending"], stop)]
    /\ UNCHANGED <<now, cfg, workflows, steps, naps, runs, client>>

\* The store answers #claim with no document: the loop goes to sleep.
PollClaimNone(p) ==
    /\ poller[p].pc = "claiming"
    /\ Due(workflows, poller[p].claimNow) = {}
    /\ poller' = [poller EXCEPT ![p].pc = "sleeping",
                                ![p].claimNow = 0,
                                ![p].wake = now + PollInterval]
    /\ UNCHANGED <<now, cfg, workflows, steps, naps, runs, client>>

\* A loop that awaits the run it dispatches before it goes round.
PollClaimSomeAwaits(p) ==
    /\ poller[p].pc = "claiming"
    /\ Len(runs) < cfg.maxRuns
    /\ \E w \in Due(workflows, poller[p].claimNow) :
          /\ workflows' = ClaimUpdate(workflows, w, poller[p].claimNow)
          /\ runs' = Append(runs, NewRun(p, w))
    /\ poller' = [poller EXCEPT ![p].pc = "awaiting", ![p].claimNow = 0]
    /\ UNCHANGED <<now, cfg, steps, naps, client>>

\* The store applies #claim's findOneAndUpdate to one matching document and
\* answers with its id: the run is dispatched (not awaited) and the loop goes
\* round to its head.
PollClaimSome(p) ==
    /\ poller[p].pc = "claiming"
    /\ Len(runs) < cfg.maxRuns
    /\ \E w \in Due(workflows, poller[p].claimNow) :
          /\ workflows' = ClaimUpdate(workflows, w, poller[p].claimNow)
          /\ runs' = Append(runs, NewRun(p, w))
    /\ \E stop \in ShouldStop :
          poller' = [poller EXCEPT ![p] = LoopHead(@, stop)]
    /\ UNCHANGED <<now, cfg, steps, naps, client>>

\* The store fails #claim's findOneAndUpdate with an I/O error, which
\* `await this.#claim()` throws inside the loop.
PollClaimThrows(p) ==
    /\ poller[p].pc = "claiming"
    /\ poller' = [poller EXCEPT ![p] = ExecutorThrows(@, StoreError)]
    /\ UNCHANGED <<now, cfg, workflows, steps, naps, runs, client>>

\* The idle sleep of the loop ends.
PollWake(p) ==
    /\ poller[p].pc = "sleeping"
    /\ now >= poller[p].wake
    /\ \E stop \in ShouldStop :
          poller' = [poller EXCEPT ![p] = LoopHead(@, stop)]
    /\ UNCHANGED <<now, cfg, workflows, steps, naps, runs, client>>

\* A runner that records a run without a handler as a failed run before it
\* throws HandlerNotFound.
RunFindRunDataRecords(r) ==
    /\ runs[r].pc = "findRunData"
    /\ LET run == runs[r]
           doc == workflows[run.w]
       IN  IF ~doc.exists
           THEN /\ runs' = [runs EXCEPT ![r].pc = "rejected",
                                        ![r].error = WorkflowNotFound(run.w)]
                /\ poller' = [poller EXCEPT
                       ![run.p] = OnRunRejected(@, WorkflowNotFound(run.w))]
                /\ UNCHANGED workflows
           ELSE IF doc.handlerId \notin Registered
           THEN /\ runs' = [runs EXCEPT ![r].pc = "rejected",
                                        ![r].handlerId = doc.handlerId,
                                        ![r].error =
                                            HandlerNotFound(doc.handlerId)]
                /\ poller' = [poller EXCEPT
                       ![run.p] = OnRunRejected(@, HandlerNotFound(doc.handlerId))]
                /\ workflows' = UpdateStatus(workflows, run.w, "failed",
                                             now + WaitRetryInterval,
                                             doc.failures + 1)
           ELSE /\ runs' = [runs EXCEPT
                       ![r] = Invoke([@ EXCEPT !.handlerId = doc.handlerId,
                                               !.failures = doc.failures,
                                               !.ip = 1],
                                     poller[run.p].firstCall)]
                /\ poller' = [poller EXCEPT
                       ![run.p].firstCall =
                           IF doc.handlerId = "hFlaky" THEN FALSE ELSE @]
                /\ UNCHANGED workflows
    /\ UNCHANGED <<now, cfg, steps, naps, client>>

\* #findRunData answers: the run fails with WorkflowNotFound or
\* HandlerNotFound, or the handler is invoked and runs to its first await.
RunFindRunData(r) ==
    /\ runs[r].pc = "findRunData"
    /\ LET run == runs[r]
           doc == workflows[run.w]
       IN  IF ~doc.exists
           THEN /\ runs' = [runs EXCEPT ![r].pc = "rejected",
                                        ![r].error = WorkflowNotFound(run.w)]
                /\ poller' = [poller EXCEPT
                       ![run.p] = OnRunRejected(@, WorkflowNotFound(run.w))]
           ELSE IF doc.handlerId \notin Registered
           THEN /\ runs' = [runs EXCEPT ![r].pc = "rejected",
                                        ![r].handlerId = doc.handlerId,
                                        ![r].error =
                                            HandlerNotFound(doc.handlerId)]
                /\ poller' = [poller EXCEPT
                       ![run.p] = OnRunRejected(@, HandlerNotFound(doc.handlerId))]
           ELSE /\ runs' = [runs EXCEPT
                       ![r] = Invoke([@ EXCEPT !.handlerId = doc.handlerId,
                                               !.failures = doc.failures,
                                               !.ip = 1],
                                     poller[run.p].firstCall)]
                /\ poller' = [poller EXCEPT
                       ![run.p].firstCall =
                           IF doc.handlerId = "hFlaky" THEN FALSE ELSE @]
    /\ UNCHANGED <<now, cfg, workflows, steps, naps, client>>

\* #updateStatus is applied; then the error callback, when one is configured,
\* is called, and a callback that throws makes the run reject.
RunUpdateStatus(r) ==
    /\ runs[r].pc = "updateStatus"
    /\ LET run == runs[r]
       IN  /\ workflows' = UpdateStatus(workflows, run.w, run.loc.status,
                                        run.loc.timeoutAt, run.loc.failures)
           /\ IF cfg.errorCallback = "throws"
              THEN /\ runs' = [runs EXCEPT ![r].pc = "rejected",
                                           ![r].loc = NoLocals,
                                           ![r].error = CallbackError]
                   /\ poller' = [poller EXCEPT
                          ![run.p] = OnRunRejected(@, CallbackError)]
              ELSE /\ runs' = [runs EXCEPT ![r].pc = "done",
                                           ![r].loc = NoLocals]
                   /\ UNCHANGED poller
    /\ UNCHANGED <<now, cfg, steps, naps, client>>

\* #setAsFinished is applied with the handler's result.
RunSetAsFinished(r) ==
    /\ runs[r].pc = "setAsFinished"
    /\ workflows' = SetAsFinished(workflows, runs[r].w, runs[r].obs)
    /\ runs' = [runs EXCEPT ![r].pc = "done"]
    /\ UNCHANGED <<now, cfg, steps, naps, poller, client>>


\* ctx.step: #findOutput answers.  A recorded output is returned at once;
\* otherwise fn is invoked.
StepFindOutput(r) ==
    /\ runs[r].pc = "findOutput"
    /\ LET run == runs[r]
           output == steps[run.w][CurOp(run).id]
       IN  IF Cached(output)
           THEN /\ runs' = [runs EXCEPT ![r] = StepReturns(run, output)]
           ELSE /\ runs' = [runs EXCEPT ![r].pc = "fn"]
    /\ UNCHANGED <<now, cfg, workflows, steps, naps, poller, client>>

\* ctx.step: fn returns `output`; the new lease is computed from `now` and the
\* write of the output is issued.
StepFnReturns(r, output) ==
    /\ runs[r].pc = "fn"
    /\ runs' = [runs EXCEPT
          ![r].pc = IF cfg.variant = "single" THEN "updateOutput"
                                              ELSE "insertStep",
          ![r].loc = [NoLocals EXCEPT !.output = output,
                                      !.timeoutAt = now + TimeoutInterval]]
    /\ UNCHANGED <<now, cfg, workflows, steps, naps, poller, client>>

\* ctx.step: fn throws; the error reaches the handler, which lets it through
\* to #run's catch block.
StepFnThrows(r) ==
    /\ runs[r].pc = "fn"
    /\ runs' = [runs EXCEPT ![r] = Catch(@)]
    /\ UNCHANGED <<now, cfg, workflows, steps, naps, poller, client>>

\* ctx.step, single-document storage: #updateOutput writes the output and the
\* lease in one update, and step returns the output fn gave.
StepUpdateOutput(r) ==
    /\ runs[r].pc = "updateOutput"
    /\ LET run == runs[r]
       IN  /\ steps' = SetOutput(workflows, steps, run.w, CurOp(run).id,
                                 run.loc.output)
           /\ workflows' = SetTimeoutAt(workflows, run.w, run.loc.timeoutAt)
           /\ runs' = [runs EXCEPT ![r] = StepReturns(run, run.loc.output)]
    /\ UNCHANGED <<now, cfg, naps, poller, client>>

\* ctx.step, three collections: #insertStep upserts the step record.
StepInsertStep(r) ==
    /\ runs[r].pc = "insertStep"
    /\ steps' = InsertStep(steps, runs[r].w, CurOp(runs[r]).id,
                           runs[r].loc.output)
    /\ runs' = [runs EXCEPT ![r].pc = "updateTimeoutAt"]
    /\ UNCHANGED <<now, cfg, workflows, naps, poller, client>>

\* Three collections: #updateTimeoutAt is applied.  In a step, step then
\* returns the output fn gave; in a sleep, the timer of goSleep(ms) is set.
UpdateTimeoutAt(r) ==
    /\ runs[r].pc = "updateTimeoutAt"
    /\ LET run == runs[r]
       IN  /\ workflows' = SetTimeoutAt(workflows, run.w, run.loc.timeoutAt)
           /\ IF CurOp(run).op = "step"
              THEN /\ runs' = [runs EXCEPT
                          ![r] = StepReturns(run, run.loc.output)]
              ELSE /\ runs' = [runs EXCEPT
                          ![r].pc = "goSleep",
                          ![r].loc.timer = now + CurOp(run).ms]
    /\ UNCHANGED <<now, cfg, steps, naps, poller, client>>

\* ctx.sleep: #findWakeUpAt answers and `now` is read.  With a recorded wake
\* instant the call sleeps for what remains of it, or returns; without one the
\* wake instant and the lease are computed and their write is issued.
SleepFindWakeUpAt(r) ==
    /\ runs[r].pc = "findWakeUpAt"
    /\ LET run == runs[r]
           wakeUpAt == naps[run.w][CurOp(run).id]
       IN  runs' = [runs EXCEPT ![r] =
              IF Napped(wakeUpAt)
              THEN IF wakeUpAt - now > 0
                   THEN [run EXCEPT !.pc = "goSleep",
                                    !.loc = [NoLocals EXCEPT
                                               !.timer = now + (wakeUpAt - now)]]
                   ELSE SleepReturns(run)
              ELSE [run EXCEPT
                      !.pc = IF cfg.variant = "single" THEN "updateWakeUpAt"
                                                       ELSE "insertNap",
                      !.loc = [NoLocals EXCEPT
                          !.wakeUpAt = now + CurOp(run).ms,
                          !.timeoutAt = now + CurOp(run).ms + TimeoutInterval]]]
    /\ UNCHANGED <<now, cfg, workflows, steps, naps, poller, client>>

\* ctx.sleep, single-document storage: #updateWakeUpAt writes the wake instant
\* and the lease in one update; then the timer of goSleep(ms) is set.
SleepUpdateWakeUpAt(r) ==
    /\ runs[r].pc = "updateWakeUpAt"
    /\ LET run == runs[r]
       IN  /\ naps' = SetWakeUpAt(workflows, naps, run.w, CurOp(run).id,
                                  run.loc.wakeUpAt)
           /\ workflows' = SetTimeoutAt(workflows, run.w, run.loc.timeoutAt)
           /\ runs' = [runs EXCEPT
                  ![r].pc = "goSleep",
                  ![r].loc.timer = now + CurOp(run).ms]
    /\ UNCHANGED <<now, cfg, steps, poller, client>>

\* ctx.sleep, three collections: #insertNap upserts the nap record.
SleepInsertNap(r) ==
    /\ runs[r].pc = "insertNap"
    /\ naps' = InsertNap(naps, runs[r].w, CurOp(runs[r]).id,
                         runs[r].loc.wakeUpAt)
    /\ runs' = [runs EXCEPT ![r].pc = "updateTimeoutAt"]
    /\ UNCHANGED <<now, cfg, workflows, steps, poller, client>>

\* ctx.sleep: the timer of #goSleep fires and sleep returns.
SleepWakes(r) ==
    /\ runs[r].pc = "goSleep"
    /\ now >= runs[r].loc.timer
    /\ runs' = [runs EXCEPT ![r] = SleepReturns(@)]
    /\ UNCHANGED <<now, cfg, workflows, steps, naps, poller, client>>

-----------------------------------------------------------------------------
(* Observations: history kept beside the program, written by no action *)

\* This step applies a #claim of poller p at the store.
ClaimApplied(p) ==
    /\ poller[p].pc = "claiming"
    /\ \/ poller'[p].pc = "sleeping"
       \/ Len(runs') > Len(runs) /\ runs'[Len(runs')].p = p

\* What the #claim applied in this step answered.
ClaimAnswer ==
    IF Len(runs') > Len(runs) THEN runs'[Len(runs')].w ELSE "none"

\* Both workers have a #claim in flight, issued at the same instant, and the
\* store holds exactly one instance their filter matches.
RaceBegins ==
    /\ \A p \in PollerIds : poller'[p].pc = "claiming"
    /\ \A p \in PollerIds : poller'[p].claimNow = now'
    /\ Cardinality(Due(workflows', now')) = 1

\* The race of two concurrent claims: it begins when both are in flight, each
\* claim's answer is noted when the store applies it, and the race is void
\* when another write reaches the workflows collection between the two.
ObserveRace(race) ==
    IF race.st = "off"
    THEN IF RaceBegins
         THEN [st |-> "on",
               w |-> CHOOSE w \in Due(workflows', now') : TRUE,
               res |-> [p \in PollerIds |-> "pending"]]
         ELSE race
    ELSE IF race.st = "on"
    THEN IF \E p \in PollerIds : ClaimApplied(p) /\ race.res[p] = "pending"
         THEN LET p == CHOOSE q \in PollerIds :
                           ClaimApplied(q) /\ race.res[q] = "pending"
                  res == [race.res EXCEPT ![p] = ClaimAnswer]
              IN  [race EXCEPT !.res = res,
                               !.st = IF \A q \in PollerIds : res[q] # "pending"
                                      THEN "over" ELSE "on"]
         ELSE IF workflows' # workflows
         THEN [race EXCEPT !.st = "void"]
         ELSE race
    ELSE race

\* This step issues a #claim of poller p: the loop passes its head and enters
\* #claim.
ClaimIssued(p) ==
    /\ poller'[p].pc = "claiming"
    /\ poller[p].pc # "claiming" \/ ClaimApplied(p)

\* The instances that have had status aborted, after this step.
ObserveAborted(aborted) ==
    aborted \cup {w \in WorkflowIds : workflows'[w].status = "aborted"}

\* The runs of poller p that fail with an infrastructure error in this step.
InfraFailing(p) ==
    {r \in DOMAIN runs : /\ runs[r].p = p
                          /\ runs[r].pc # "rejected"
                          /\ runs'[r].pc = "rejected"
                          /\ IsInfra(runs'[r].error)}

\* The error of the first run of each poller to fail with an infrastructure
\* error.
ObserveFirstErr(firstErr) ==
    [p \in PollerIds |->
        IF firstErr[p] = NoError /\ InfraFailing(p) # {}
        THEN runs'[CHOOSE r \in InfraFailing(p) : TRUE].error
        ELSE firstErr[p]]

\* For each run, in dispatch order: what the store held when the run was
\* claimed, namely whether the instance was then in status failed (its last
\* run had failed) and the step outputs recorded for it.
ObserveAtStart(atStart) ==
    IF Len(runs') > Len(runs)
    THEN Append(atStart, [failed |-> workflows[ClaimAnswer].status = "failed",
                          steps |-> steps[ClaimAnswer]])
    ELSE atStart

\* For each run, in dispatch order: the steps whose fn the run has invoked.
ObserveInvoked(invoked) ==
    [r \in DOMAIN runs' |->
        IF r \in DOMAIN runs
        THEN IF runs'[r].pc = "fn" /\ runs[r].pc # "fn"
             THEN invoked[r] \cup {CurOp(runs'[r]).id}
             ELSE invoked[r]
        ELSE {}]

\* What each probe of the wait call found in the store, in the order of the
\* probes: the status of the instance, or "missing".
ObserveProbes(probes) ==
    IF client.wait.pc = "probing" /\ client'.wait # client.wait
    THEN Append(probes, IF workflows[client.wait.w].exists
                        THEN workflows[client.wait.w].status
                        ELSE "missing")
    ELSE probes

Observe ==
    obsv' = [race |-> ObserveRace(obsv.race),
             aborted |-> ObserveAborted(obsv.aborted),
             firstErr |-> ObserveFirstErr(obsv.firstErr),
             atStart |-> ObserveAtStart(obsv.atStart),
             invoked |-> ObserveInvoked(obsv.invoked),
             probes |-> ObserveProbes(obsv.probes)]

-----------------------------------------------------------------------------
(* Specification *)

\* A step of the program together with the observation of it.
Observed(A) == A /\ Observe

ClientActions ==
    Observed(\E s \in cfg.starts : Start(s[1], s[2]))

PollerActions ==
    \/ Observed(\E p \in cfg.pollers : Poll(p))
    \/ Observed(\E p \in cfg.pollers : PollClaimNone(p))
    \/ Observed(\E p \in cfg.pollers : PollClaimSome(p))
    \/ Observed(\E p \in cfg.pollers : PollWake(p))

RunnerActions ==
    \/ Observed(\E r \in DOMAIN runs : RunFindRunData(r))
    \/ Observed(\E r \in DOMAIN runs : RunUpdateStatus(r))
    \/ Observed(\E r \in DOMAIN runs : RunSetAsFinished(r))

StepActions ==
    \/ Observed(\E r \in DOMAIN runs : StepFindOutput(r))
    \/ Observed(\E r \in DOMAIN runs, output \in Outputs : StepFnReturns(r, output))
    \/ Observed(\E r \in DOMAIN runs : StepFnThrows(r))
    \/ Observed(\E r \in DOMAIN runs : StepUpdateOutput(r))
    \/ Observed(\E r \in DOMAIN runs : StepInsertStep(r))

SleepActions ==
    \/ Observed(\E r \in DOMAIN runs : SleepFindWakeUpAt(r))
    \/ Observed(\E r \in DOMAIN runs : SleepUpdateWakeUpAt(r))
    \/ Observed(\E r \in DOMAIN runs : SleepInsertNap(r))
    \/ Observed(\E r \in DOMAIN runs : SleepWakes(r))

LeaseActions ==
    Observed(\E r \in DOMAIN runs : UpdateTimeoutAt(r))

OperatorActions ==
    Observed(\E w \in WorkflowIds : Remove(w))

WaitActions ==
    \/ Observed(\E s \in cfg.starts : StartExisting(s[1], s[2]))
    \/ Observed(\E w \in WorkflowIds, retries \in 0..MaxRetries : Wait(w, retries))
    \/ Observed(WaitFindStatusAndResult)
    \/ Observed(WaitWakes)

StoreFailureActions ==
    Observed(\E p \in cfg.pollers : PollClaimThrows(p))

CrashActions ==
    Observed(\E p \in cfg.pollers : Die(p))

\* The whole engine.
Next ==
    \/ Observed(Tick)
    \/ ClientActions
    \/ WaitActions
    \/ StoreFailureActions
    \/ OperatorActions
    \/ CrashActions
    \/ PollerActions
    \/ RunnerActions
    \/ StepActions
    \/ SleepActions
    \/ LeaseActions

Spec == Init /\ [][Next]_vars

\* The engine in deployments whose handlers call neither step nor sleep: the
\* actions left out are never enabled there.
NextClaim == Observed(Tick) \/ ClientActions \/ PollerActions \/ RunnerActions

SpecClaim == InitFor(ClaimScenarios) /\ [][NextClaim]_vars

SpecFlaky == InitFor(FlakyScenarios) /\ [][NextClaim]_vars

\* Fair scheduling: the clock advances, the event loop of every worker runs
\* each continuation that is ready, and the store answers every call.
Fairness ==
    /\ WF_vars(Observed(TickQuiet))
    /\ \A p \in PollerIds :
          /\ WF_vars(Observed(p \in cfg.pollers /\ Poll(p)))
          /\ WF_vars(Observed(p \in cfg.pollers /\ PollClaimNone(p)))
          /\ WF_vars(Observed(p \in cfg.pollers /\ PollClaimSome(p)))
          /\ WF_vars(Observed(p \in cfg.pollers /\ PollWake(p)))
    /\ WF_vars(Observed(\E r \in DOMAIN runs : RunFindRunData(r)))
    /\ WF_vars(Observed(\E r \in DOMAIN runs : RunUpdateStatus(r)))
    /\ WF_vars(Observed(\E r \in DOMAIN runs : RunSetAsFinished(r)))

\* The same engine under fair scheduling, with a handler that fails once.
NextLive ==
    Observed(TickQuiet) \/ ClientActions \/ PollerActions \/ RunnerActions

SpecLive == InitFor(LiveScenarios) /\ [][NextLive]_vars /\ Fairness

\* The engine with a client that starts an id twice and waits for it.
NextClient == NextClaim \/ WaitActions

SpecClient == InitFor(ClientScenarios) /\ [][NextClient]_vars

\* The engine with a loop that may be stopped and a store that may fail a
\* claim, under fair scheduling.
NextStop == NextClaim \/ StoreFailureActions

SpecStop == InitFor(StopScenarios) /\ [][NextStop]_vars /\ Fairness

\* Fair scheduling of two workers, one of which may die.
NextCrash == NextLive \/ CrashActions

SpecCrash == InitFor(CrashScenarios) /\ [][NextCrash]_vars /\ Fairness

\* The engine in deployments whose handlers call step only.
NextSteps ==
    Observed(Tick) \/ ClientActions \/ PollerActions \/ RunnerActions \/ StepActions
         \/ LeaseActions

SpecSteps == InitFor(StepScenarios) /\ [][NextSteps]_vars

\* The engine in deployments whose handlers record a step and then throw.
NextRetry ==
    \/ Observed(Tick)
    \/ ClientActions
    \/ PollerActions
    \/ Observed(\E r \in DOMAIN runs : RunFindRunData(r))
    \/ Observed(\E r \in DOMAIN runs : RunUpdateStatus(r))
    \/ StepActions
    \/ LeaseActions

SpecRetry == InitFor(RetryScenarios) /\ [][NextRetry]_vars

SpecCache == InitFor(CacheScenarios) /\ [][NextRetry]_vars

\* The engine in deployments whose handlers call sleep only and never throw.
NextNaps ==
    \/ Observed(Tick)
    \/ ClientActions
    \/ PollerActions
    \/ Observed(\E r \in DOMAIN runs : RunFindRunData(r))
    \/ Observed(\E r \in DOMAIN runs : RunSetAsFinished(r))
    \/ SleepActions
    \/ LeaseActions

SpecNaps == InitFor(NapScenarios) /\ [][NextNaps]_vars

SpecResume == InitFor(ResumeScenarios) /\ [][NextNaps]_vars

SpecDispatch == InitFor(DispatchScenarios) /\ [][NextNaps]_vars

SpecLongNaps == InitFor(LongNapScenarios) /\ [][NextNaps]_vars

SpecLongSleep == InitFor(LongSleepScenarios) /\ [][NextNaps]_vars

\* The three-collection engine with a store that answers at once, handlers
\* that sleep only, and workers that may die.
NextDeepNap ==
    \/ Observed(TickSettled)
    \/ ClientActions
    \/ PollerActions
    \/ CrashActions
    \/ Observed(\E r \in DOMAIN runs : RunFindRunData(r))
    \/ Observed(\E r \in DOMAIN runs : RunSetAsFinished(r))
    \/ Observed(\E r \in DOMAIN runs : SleepFindWakeUpAt(r))
    \/ Observed(\E r \in DOMAIN runs : SleepInsertNap(r))
    \/ Observed(\E r \in DOMAIN runs : SleepWakes(r))
    \/ LeaseActions

SpecDeepNap == InitFor(DeepNapScenarios) /\ [][NextDeepNap]_vars

\* The engine in deployments whose handlers always throw.
NextFail ==
    \/ Observed(Tick)
    \/ ClientActions
    \/ PollerActions
    \/ Observed(\E r \in DOMAIN runs : RunFindRunData(r))
    \/ Observed(\E r \in DOMAIN runs : RunUpdateStatus(r))

SpecFail == InitFor(FailScenarios) /\ [][NextFail]_vars

SpecAbort == InitFor(AbortScenarios) /\ [][NextFail]_vars

\* The engine where runs meet infrastructure failures: handlers that return
\* at once or are missing, and documents an operator may remove.
NextInfra ==
    \/ Observed(Tick)
    \/ ClientActions
    \/ OperatorActions
    \/ PollerActions
    \/ Observed(\E r \in DOMAIN runs : RunFindRunData(r))
    \/ Observed(\E r \in DOMAIN runs : RunSetAsFinished(r))

SpecInfra == InitFor(InfraScenarios) /\ [][NextInfra]_vars

-----------------------------------------------------------------------------
(* Claim exclusivity *)

\* C1: when two workers' claims are in flight together, issued at the same
\* instant, and exactly one instance is due, then once the store has applied
\* both, exactly one of them was answered with that instance's id and the
\* other with none.
ClaimExclusive ==
    obsv.race.st = "over" =>
        \E p \in PollerIds :
            /\ obsv.race.res[p] = obsv.race.w
            /\ \A q \in PollerIds \ {p} : obsv.race.res[q] = "none"

\* A race of two claims over one due instance has been run to its end.
ClaimRaceOver == obsv.race.st = "over"

-----------------------------------------------------------------------------
(* At-most-once recorded step *)

\* The values the step calls of run r have returned, by stepId.
Returned(r, stepId) ==
    {runs[r].obs[i] : i \in {j \in DOMAIN runs[r].obs :
                                HandlerBody(runs[r].handlerId)[j].id = stepId}}

\* C2: across replays and overlapping runs of a workflow, all the step calls
\* for one (workflowId, stepId) that have returned, have returned the same
\* output value.
StepOutputUnique ==
    \A r1, r2 \in DOMAIN runs : \A stepId \in StepIds :
        runs[r1].w = runs[r2].w =>
            Cardinality(Returned(r1, stepId) \cup Returned(r2, stepId)) <= 1

-----------------------------------------------------------------------------
(* Monotone wake *)

\* C3: in both storage variants, once a wake instant is recorded for a
\* (workflowId, napId) no later sleep call, replay or overlapping run changes
\* it.
WakeUpAtWrittenOnce ==
    [][\A w \in WorkflowIds, n \in NapIds :
          naps[w][n] # Undefined => naps'[w][n] = naps[w][n]]_vars

-----------------------------------------------------------------------------
(* Terminal stickiness *)

\* C4: once an instance is finished or aborted, no step of any run or poller
\* changes any field of its document.
TerminalSticky ==
    [][\A w \in WorkflowIds :
          workflows[w].status \in {"finished", "aborted"} =>
              workflows'[w] = workflows[w]]_vars

\* C5: once an instance has had status aborted, no claim of any poller is
\* answered with its id.
AbortedNeverClaimed ==
    [][Len(runs') > Len(runs) => ClaimAnswer \notin obsv.aborted]_vars

-----------------------------------------------------------------------------
(* Retry progress *)

\* The runs of instance w that have invoked the handler.
HandlerRuns(rs, w) ==
    Cardinality({r \in DOMAIN rs : rs[r].w = w /\ rs[r].ip >= 1})

\* C6: with maxFailures = N and a handler that always throws, when the
\* instance becomes aborted the handler has been run at most N+1 times and
\* failures = N+1.
AbortedWithinBudget ==
    [][\A w \in WorkflowIds :
          /\ cfg.maxFailures.set
          /\ workflows[w].handlerId = "hFail"
          /\ workflows[w].status # "aborted"
          /\ workflows'[w].status = "aborted"
          => /\ workflows'[w].failures = cfg.maxFailures.n + 1
             /\ HandlerRuns(runs', w) <= cfg.maxFailures.n + 1]_vars

-----------------------------------------------------------------------------
(* Replay equivalence *)

\* C7: a run claimed after the instance's last run failed replays the steps
\* recorded by then: each of them returns the output that was recorded, its
\* fn is not invoked, and so the handler, deterministic in its step outputs,
\* computes the result an uninterrupted run would have.
ReplayReturnsRecorded ==
    \A r \in DOMAIN runs :
        obsv.atStart[r].failed =>
            \A stepId \in StepIds :
                obsv.atStart[r].steps[stepId] # Undefined =>
                    /\ stepId \notin obsv.invoked[r]
                    /\ Returned(r, stepId) \subseteq
                           {obsv.atStart[r].steps[stepId]}

-----------------------------------------------------------------------------
(* The poll loop and the failures of its runs *)

\* C8: after a run a poller dispatched has failed with WorkflowNotFound or
\* HandlerNotFound, that poller issues no further claim (and so dispatches no
\* further run), whatever shouldStop answers.
NoClaimAfterInfraFailure ==
    [][\A p \in PollerIds : obsv.firstErr[p] # NoError => ~ClaimIssued(p)]_vars

\* C9: when a run a poller dispatched has failed with an infrastructure
\* error, the poll promise is rejected with the error of the first such
\* failure.
PollRejectsWithFirstFailure ==
    \A p \in PollerIds :
        obsv.firstErr[p] # NoError =>
            /\ poller[p].promise = "rejected"
            /\ poller[p].error = obsv.firstErr[p]

\* C10: a run whose handler threw never rejects, and so never rejects the
\* poll promise of the poller that dispatched it.
HandlerThrowHarmless ==
    \A r \in DOMAIN runs :
        runs[r].threw =>
            /\ runs[r].pc \in {"updateStatus", "done"}
            /\ poller[runs[r].p].promise # "rejected"

-----------------------------------------------------------------------------
(* The error callback *)

\* C11: what the error callback throws is swallowed: it never leaves a run
\* as a rejection and never becomes the error of a poll promise.
CallbackThrowSwallowed ==
    /\ \A r \in DOMAIN runs :
          runs[r].error # CallbackError
    /\ \A p \in PollerIds :
          poller[p].error # CallbackError

-----------------------------------------------------------------------------
(* Sleep *)

\* Run r is suspended in the goSleep(ms) of a first-entry sleep: it has
\* written the wake instant it computed, and the lease past it.
InFirstSleep(r) ==
    /\ runs[r].pc = "goSleep"
    /\ runs[r].loc.timeoutAt # 0

\* C12: while a run is suspended in a first-entry sleep, no claim is answered
\* with its instance before the wake instant the run wrote.
NoClaimDuringFirstSleep ==
    [][Len(runs') > Len(runs) =>
          \A r \in DOMAIN runs :
              runs[r].w = ClaimAnswer /\ InFirstSleep(r) =>
                  now >= runs[r].loc.wakeUpAt]_vars

\* This step returns run r from a sleep call.
SleepReturned(r) ==
    /\ runs[r].pc \in {"findWakeUpAt", "goSleep"}
    /\ runs'[r].ip = runs[r].ip + 1

\* C13: no run returns from sleep(napId, ms) before the wake instant recorded
\* for (workflowId, napId).
NoEarlyWake ==
    [][\A r \in DOMAIN runs :
          SleepReturned(r) => now >= naps[runs[r].w][CurOp(runs[r]).id]]_vars

-----------------------------------------------------------------------------
(* Progress *)

\* Instance w has reached status finished with the value a run's handler
\* returned as its result.
ReachedFinished(w) ==
    /\ workflows[w].status = "finished"
    /\ workflows[w].hasResult
    /\ \E r \in DOMAIN runs :
          /\ runs[r].w = w
          /\ runs[r].pc = "done"
          /\ ~runs[r].threw
          /\ workflows[w].result = runs[r].obs

\* C14: under fair scheduling with a poller that keeps polling, a started
\* instance whose handler is registered and returns after fewer failures than
\* the abort threshold eventually reaches status finished, with the handler's
\* return value as its result.
StartedEventuallyFinished ==
    \A w \in WorkflowIds : workflows[w].exists ~> ReachedFinished(w)

\* An instance has finished on the run that retried a failed one.
FinishedAfterRetry ==
    \E w \in WorkflowIds :
        /\ workflows[w].status = "finished"
        /\ workflows[w].failures = 1
        /\ ReachedFinished(w)

\* Instance w has status idle, running or failed and its timeoutAt is in the
\* past.
Candidate(w) ==
    /\ workflows[w].exists
    /\ workflows[w].status \in {"idle", "running", "failed"}
    /\ workflows[w].timeoutAt < now

\* The number of times instance w has been claimed.
Claims(w) == Cardinality({r \in DOMAIN runs : runs[r].w = w})

\* The worker of a run of w died while the instance was running, and the lease
\* that run held has expired.
Orphaned(w) ==
    /\ Candidate(w)
    /\ workflows[w].status = "running"
    /\ \E r \in DOMAIN runs : runs[r].w = w /\ runs[r].pc = "dead"

\* A later run of a live worker has invoked the handler on the document of w
\* after a run of w died.
Replayed(w) ==
    \E r, r2 \in DOMAIN runs :
        /\ r < r2
        /\ runs[r].w = w /\ runs[r].pc = "dead"
        /\ runs[r2].w = w /\ runs[r2].pc \notin {"findRunData", "dead"}
        /\ workflows[w].exists

\* C15: an instance whose status is idle, running or failed and whose
\* timeoutAt stays in the past is eventually claimed by a live poller; a
\* running instance whose worker died is claimed again once its lease has
\* expired, and its handler is replayed on the same document.
CandidateEventuallyClaimed ==
    /\ \A w \in WorkflowIds : \A k \in 0..AbortRuns :
          (Candidate(w) /\ Claims(w) = k) ~> (Claims(w) > k \/ ~Candidate(w))
    /\ \A w \in WorkflowIds : Orphaned(w) ~> Replayed(w)

\* A run has invoked the handler of an instance whose earlier run died with
\* its worker.
ReplayedAfterDeath == \E w \in WorkflowIds : Replayed(w)

-----------------------------------------------------------------------------
(* Client calls *)

SawFinished == {k \in DOMAIN obsv.probes : obsv.probes[k] = "finished"}

\* C17: wait on an existing instance probes the status at most `retries`
\* times; it returns the stored result as soon as a probe observes status
\* finished, and otherwise (status aborted included) fails with WaitTimeout
\* after exactly `retries` probes.
WaitWithinBudget ==
    LET ws == client.wait
        seen == obsv.probes
    IN  (\A k \in DOMAIN seen : seen[k] # "missing") =>
            /\ Len(seen) <= ws.retries
            /\ SawFinished # {} => SawFinished = {Len(seen)} /\ ws.pc = "returned"
            /\ ws.pc = "returned" =>
                  /\ SawFinished = {Len(seen)}
                  /\ workflows[ws.w].hasResult
                  /\ ws.value = workflows[ws.w].result
            /\ ws.pc = "threw" =>
                  /\ ws.error = WaitTimeout(ws.w)
                  /\ Len(seen) = ws.retries
                  /\ SawFinished = {}

\* A wait has returned the result on its second probe.
WaitReturnedOnSecondProbe ==
    client.wait.pc = "returned" /\ Len(obsv.probes) = 2

\* C18: wait on a workflowId that has no instance fails with WorkflowNotFound,
\* never with WaitTimeout and never with a result, for every value of retries.
WaitMissingNotFound ==
    client.wait.pc \in {"returned", "threw"} /\ ~workflows[client.wait.w].exists
        => client.wait.error = WorkflowNotFound(client.wait.w)

-----------------------------------------------------------------------------
(* The end of poll *)

\* The runs poller p dispatched that have failed with an infrastructure error.
InfraFailed(p) ==
    {r \in DOMAIN runs :
        runs[r].p = p /\ runs[r].pc = "rejected" /\ IsInfra(runs[r].error)}

\* C19: poll resolves without error once shouldStop returns true at a loop
\* check, provided no dispatched run has failed with an infrastructure error;
\* if shouldStop is true at the first check, poll resolves without attempting
\* any claim.
PollResolvesOnStop ==
    [][\A p \in PollerIds :
          poller[p].pc # "exited" /\ poller'[p].pc = "exited" =>
              /\ InfraFailed(p) = {} =>
                    /\ poller'[p].promise = "resolved"
                    /\ poller'[p].error = NoError
              /\ poller[p].pc = "start" =>
                    /\ poller'[p].promise = "resolved"
                    /\ workflows' = workflows
                    /\ runs' = runs]_vars

\* C20: if the store fails a claim with an I/O error during poll, the error
\* propagates: poll's promise eventually rejects with that error.
ClaimErrorRejectsPoll ==
    \A p \in PollerIds :
        poller[p].pc = "unhandled" ~>
            (poller[p].promise = "rejected" /\ poller[p].error = StoreError)

-----------------------------------------------------------------------------
(* The step call *)

\* The fn of step stepId, invoked by run r, has run to completion: the run
\* invoked it, is past its await, and fn did not throw.
FnCompleted(r, stepId) ==
    /\ stepId \in obsv.invoked[r]
    /\ LET run == runs[r]
           atStep == /\ run.ip <= Len(HandlerBody(run.handlerId))
                     /\ CurOp(run).op = "step"
                     /\ CurOp(run).id = stepId
       IN  ~(atStep /\ (run.pc = "fn" \/ run.threw))

\* C21: each step executes exactly once even if the workflow retries: for
\* every (workflowId, stepId), fn runs to completion at most once over all
\* the runs of the workflow.
FnCompletesAtMostOnce ==
    \A w \in WorkflowIds, stepId \in StepIds :
        Cardinality({r \in DOMAIN runs :
                        runs[r].w = w /\ FnCompleted(r, stepId)}) <= 1

-----------------------------------------------------------------------------
(* The claim operation *)

\* Instance w qualifies for a claim that read `claimNow`.
Qualifies(w, claimNow) ==
    /\ workflows[w].exists
    /\ workflows[w].status \in {"idle", "running", "failed"}
    /\ workflows[w].timeoutAt < claimNow

\* C22: the claim operation returns an instance only if its status is idle,
\* running or failed and its timeoutAt is strictly less than the `now` of the
\* claim; it sets that one instance to status running and timeoutAt = now +
\* timeoutInterval in the same store call; when no instance qualifies it
\* returns none and changes nothing.
ClaimOnlyQualified ==
    [][\A p \in PollerIds :
          ClaimApplied(p) =>
              IF ClaimAnswer = "none"
              THEN /\ \A w \in WorkflowIds : ~Qualifies(w, poller[p].claimNow)
                   /\ workflows' = workflows
              ELSE /\ Qualifies(ClaimAnswer, poller[p].claimNow)
                   /\ workflows' =
                         [workflows EXCEPT
                             ![ClaimAnswer].status = "running",
                             ![ClaimAnswer].timeoutAt =
                                 poller[p].claimNow + TimeoutInterval]]_vars

\* A failed instance has been claimed again and its run is about to start.
FailedReclaimed ==
    \E r \in DOMAIN runs :
        /\ runs[r].pc = "findRunData"
        /\ workflows[runs[r].w].status = "running"
        /\ workflows[runs[r].w].failures > 0

\* Run r takes a step of its own in this step of the engine.
Moves(r) == r \in DOMAIN runs /\ runs'[r] # runs[r]

\* C23: when a step record for (workflowId, stepId) exists, step(stepId, fn)
\* returns the recorded output without invoking fn, writes no step record and
\* does not change the instance's timeoutAt.
CachedStepReturnsRecorded ==
    [][\A r \in DOMAIN runs :
          /\ Moves(r)
          /\ runs[r].pc = "findOutput"
          /\ steps[runs[r].w][CurOp(runs[r]).id] # Undefined
          => /\ runs'[r].obs =
                    Append(runs[r].obs, steps[runs[r].w][CurOp(runs[r]).id])
             /\ runs'[r].ip = runs[r].ip + 1
             /\ runs'[r].pc # "fn"
             /\ obsv'.invoked[r] = obsv.invoked[r]
             /\ steps' = steps
             /\ workflows' = workflows]_vars

\* A run has been given the recorded output of its first step call without
\* invoking fn.
ReturnedFromRecord ==
    \E r \in DOMAIN runs :
        /\ Len(runs[r].obs) >= 1
        /\ HandlerBody(runs[r].handlerId)[1].id \notin obsv.invoked[r]

\* C24: when no step record exists, step(stepId, fn) invokes fn once, persists
\* its output under (workflowId, stepId) before it returns to the handler,
\* sets the instance's timeoutAt to now + timeoutInterval (the `now` read
\* when fn has returned), and returns that output.
FreshStepPersists ==
    [][\A r \in DOMAIN runs :
          Moves(r) =>
            LET run == runs[r]
                w == run.w
                id == CurOp(run).id
            IN  /\ run.pc = "findOutput" /\ steps[w][id] = Undefined =>
                      /\ runs'[r].pc = "fn"
                      /\ steps' = steps /\ workflows' = workflows
                /\ run.pc = "fn" /\ ~runs'[r].threw =>
                      /\ runs'[r].loc.timeoutAt = now + TimeoutInterval
                      /\ steps' = steps /\ workflows' = workflows
                /\ run.pc = "updateOutput" =>
                      /\ steps'[w][id] = run.loc.output
                      /\ workflows'[w].timeoutAt = run.loc.timeoutAt
                      /\ runs'[r].obs = Append(run.obs, run.loc.output)
                /\ run.pc = "insertStep" =>
                      /\ steps[w][id] = Undefined =>
                            steps'[w][id] = run.loc.output
                      /\ runs'[r].pc = "updateTimeoutAt"
                /\ run.pc = "updateTimeoutAt" /\ CurOp(run).op = "step" =>
                      /\ steps[w][id] # Undefined
                      /\ workflows'[w].timeoutAt = run.loc.timeoutAt
                      /\ runs'[r].obs = Append(run.obs, run.loc.output)]_vars

\* A run has invoked fn for its first step call and has been given the
\* output that is now recorded for it.
FreshStepRecorded ==
    \E r \in DOMAIN runs :
        /\ Len(runs[r].obs) >= 1
        /\ HandlerBody(runs[r].handlerId)[1].id \in obsv.invoked[r]
        /\ steps[runs[r].w][HandlerBody(runs[r].handlerId)[1].id] = runs[r].obs[1]

\* The fn run r awaits throws in this step of the engine.
FnThrows(r) ==
    /\ Moves(r)
    /\ runs[r].pc = "fn"
    /\ runs'[r].pc \notin {"updateOutput", "insertStep"}

\* C25: when fn throws inside step(stepId, fn), the error propagates to the
\* handler (and through it to the catch block of the run), no step record is
\* written for that stepId, and the instance's timeoutAt is not refreshed by
\* the step.
FnThrowPropagates ==
    [][\A r \in DOMAIN runs :
          /\ FnThrows(r) =>
                /\ runs'[r].threw
                /\ runs'[r].pc = "updateStatus"
                /\ runs'[r].ip = runs[r].ip
                /\ runs'[r].obs = runs[r].obs
                /\ steps' = steps
                /\ workflows' = workflows
          /\ Moves(r) /\ runs[r].pc = "updateStatus" => steps' = steps]_vars

\* The fn of a step has thrown, the run has recorded the failure, and no
\* output is recorded for the step.
FnThrewNothingRecorded ==
    \E r \in DOMAIN runs :
        /\ runs[r].threw /\ runs[r].pc = "done"
        /\ runs[r].ip <= Len(HandlerBody(runs[r].handlerId))
        /\ CurOp(runs[r]).op = "step"
        /\ steps[runs[r].w][CurOp(runs[r]).id] = Undefined

\* C26: in both storage variants a stored step output is write-once: once a
\* value is recorded for (workflowId, stepId), no later write changes or
\* deletes it, the writes of two overlapping runs that both ran fn included.
StepOutputWrittenOnce ==
    [][\A w \in WorkflowIds, stepId \in StepIds :
          steps[w][stepId] # Undefined =>
              steps'[w][stepId] = steps[w][stepId]]_vars

-----------------------------------------------------------------------------
(* The sleep call *)

\* C27: on first entry (no nap record), sleep(napId, ms) records wakeUpAt =
\* now + ms, sets the instance's timeoutAt to wakeUpAt + timeoutInterval, and
\* only after both writes suspends for ms.
FirstSleepWritesThenSuspends ==
    [][\A r \in DOMAIN runs :
          Moves(r) =>
            LET run == runs[r]
                w == run.w
                id == CurOp(run).id
                ms == CurOp(run).ms
            IN  /\ run.pc = "findWakeUpAt" /\ naps[w][id] = Undefined =>
                      /\ runs'[r].pc \in {"updateWakeUpAt", "insertNap"}
                      /\ runs'[r].loc.wakeUpAt = now + ms
                      /\ runs'[r].loc.timeoutAt = now + ms + TimeoutInterval
                      /\ naps' = naps /\ workflows' = workflows
                /\ run.pc = "updateWakeUpAt" =>
                      /\ naps'[w][id] = run.loc.wakeUpAt
                      /\ workflows'[w].timeoutAt = run.loc.timeoutAt
                      /\ runs'[r].pc = "goSleep"
                      /\ runs'[r].loc.timer = now + ms
                /\ run.pc = "insertNap" =>
                      /\ naps[w][id] = Undefined => naps'[w][id] = run.loc.wakeUpAt
                      /\ runs'[r].pc = "updateTimeoutAt"
                /\ run.pc = "updateTimeoutAt" /\ CurOp(run).op = "sleep" =>
                      /\ naps[w][id] # Undefined
                      /\ workflows'[w].timeoutAt = run.loc.timeoutAt
                      /\ runs'[r].pc = "goSleep"
                      /\ runs'[r].loc.timer = now + ms
                /\ run.pc = "goSleep" /\ run.loc.wakeUpAt # 0 =>
                      /\ now >= run.loc.timer
                      /\ runs'[r].ip = run.ip + 1]_vars

\* A run is suspended in a first-entry sleep with its wake instant and its
\* lease written.
SuspendedAfterWrites ==
    \E r \in DOMAIN runs :
        /\ runs[r].pc = "goSleep"
        /\ runs[r].loc.wakeUpAt # 0
        /\ naps[runs[r].w][CurOp(runs[r]).id] = runs[r].loc.wakeUpAt
        /\ workflows[runs[r].w].timeoutAt = runs[r].loc.timeoutAt

\* C28: when a nap record already exists, sleep(napId, ms) writes nothing: it
\* neither writes a nap record nor changes the instance's timeoutAt, whether
\* it suspends for the remaining time or returns immediately.
ReplayedSleepWritesNothing ==
    [][\A r \in DOMAIN runs :
          Moves(r) =>
            LET run == runs[r]
                wakeUpAt == naps[run.w][CurOp(run).id]
            IN  /\ run.pc = "findWakeUpAt" /\ wakeUpAt # Undefined =>
                      /\ naps' = naps /\ workflows' = workflows
                      /\ IF wakeUpAt > now
                         THEN /\ runs'[r].pc = "goSleep"
                              /\ runs'[r].loc.timer = wakeUpAt
                              /\ runs'[r].loc.wakeUpAt = 0
                         ELSE runs'[r].ip = run.ip + 1
                /\ run.pc = "goSleep" /\ run.loc.wakeUpAt = 0 =>
                      /\ naps' = naps /\ workflows' = workflows
                      /\ now >= run.loc.timer
                      /\ runs'[r].ip = run.ip + 1]_vars

\* A run that found a nap record is suspended for the time that remains.
ReplaySuspended ==
    \E r \in DOMAIN runs :
        /\ runs[r].pc = "goSleep"
        /\ runs[r].loc.wakeUpAt = 0
        /\ runs[r].loc.timer = naps[runs[r].w][CurOp(runs[r]).id]
        /\ runs[r].loc.timer > now

-----------------------------------------------------------------------------
(* The end of a run *)

\* C29: when the handler throws, the run sets failures to the value it read
\* at its start plus one, sets status to aborted iff maxFailures is configured
\* and the new failures exceeds it and to failed otherwise (so that with
\* maxFailures unset no instance is ever aborted), and sets timeoutAt to
\* now + waitRetryInterval.
FailureRecorded ==
    [][\A r \in DOMAIN runs :
          Moves(r) =>
            LET run == runs[r]
                w == run.w
            IN  /\ run.pc = "findRunData" /\ runs'[r].pc # "rejected" =>
                      runs'[r].failures = workflows[w].failures
                /\ ~run.threw /\ runs'[r].threw =>
                      /\ runs'[r].pc = "updateStatus"
                      /\ runs'[r].loc.failures = runs'[r].failures + 1
                      /\ runs'[r].loc.timeoutAt = now + WaitRetryInterval
                      /\ runs'[r].loc.status = "aborted" <=>
                            /\ cfg.maxFailures.set
                            /\ runs'[r].loc.failures > cfg.maxFailures.n
                      /\ runs'[r].loc.status \in {"aborted", "failed"}
                /\ run.pc = "updateStatus" =>
                      /\ workflows' =
                            [workflows EXCEPT ![w].failures = run.loc.failures,
                                              ![w].status = run.loc.status,
                                              ![w].timeoutAt = run.loc.timeoutAt]
                      /\ ~cfg.maxFailures.set =>
                            workflows'[w].status # "aborted"]_vars

\* With maxFailures = 1 the second failure has set status aborted and
\* failures 2.
AbortedOnSecondFailure ==
    \E w \in WorkflowIds :
        /\ cfg.maxFailures.set
        /\ workflows[w].status = "aborted"
        /\ workflows[w].failures = cfg.maxFailures.n + 1

\* C30: when the handler returns, the run sets status to finished and result
\* to the returned value and leaves failures and timeoutAt (and every other
\* field of the instance) as they were.
FinishKeepsFailuresAndLease ==
    [][\A r \in DOMAIN runs :
          Moves(r) /\ runs[r].pc = "setAsFinished" =>
            LET w == runs[r].w
            IN  /\ ~runs[r].threw
                /\ workflows[w].exists =>
                      /\ workflows' =
                            [workflows EXCEPT ![w].status = "finished",
                                              ![w].hasResult = TRUE,
                                              ![w].result = runs[r].obs]
                      /\ workflows'[w].failures = workflows[w].failures
                      /\ workflows'[w].timeoutAt = workflows[w].timeoutAt
                /\ UNCHANGED <<steps, naps>>]_vars

\* An instance that failed once and then succeeded is finished with
\* failures = 1, its result set, and the lease of its second claim.
FinishedWithOneFailure ==
    \E w \in WorkflowIds :
        /\ workflows[w].status = "finished"
        /\ workflows[w].hasResult
        /\ workflows[w].failures = 1
        /\ workflows[w].timeoutAt > TimeoutInterval
        /\ \E r \in DOMAIN runs : runs[r].w = w /\ runs[r].pc = "done"
                                   /\ ~runs[r].threw

-----------------------------------------------------------------------------
(* Invariants of the instance document *)

\* C31: while the status of an instance is idle, running or failed, every
\* update the engine makes of its timeoutAt (claim, lease refresh of a step or
\* a sleep, failure transition) sets it to a value strictly greater than the
\* value it had.
LeaseStrictlyGrows ==
    [][\A w \in WorkflowIds :
          /\ workflows[w].exists /\ workflows'[w].exists
          /\ workflows[w].status \in {"idle", "running", "failed"}
          /\ workflows'[w].timeoutAt # workflows[w].timeoutAt
          => workflows'[w].timeoutAt > workflows[w].timeoutAt]_vars

\* C32: in every reachable state an instance has a result if and only if its
\* status is finished.
ResultIffFinished ==
    \A w \in WorkflowIds :
        workflows[w].exists =>
            (workflows[w].hasResult <=> workflows[w].status = "finished")

\* C33: the failures count of an instance starts at 0, never decreases, and
\* increases, by exactly 1, only in a step in which a run records a handler
\* failure; every other step leaves it unchanged.
FailuresCountFailures ==
    [][\A w \in WorkflowIds :
          /\ ~workflows[w].exists /\ workflows'[w].exists =>
                workflows'[w].failures = 0
          /\ workflows[w].exists /\ workflows'[w].exists =>
                \/ workflows'[w].failures = workflows[w].failures
                \/ /\ workflows'[w].failures = workflows[w].failures + 1
                   /\ \E r \in DOMAIN runs :
                         /\ runs[r].w = w
                         /\ runs[r].pc = "updateStatus"
                         /\ Moves(r)]_vars

-----------------------------------------------------------------------------
(* Dispatch *)

\* Run r has been dispatched and has neither returned nor failed.
InFlight(r) == runs[r].pc \notin {"done", "rejected", "dead"}

\* C34: the poll loop does not await the run it dispatches: in the step in
\* which a claim is answered with an instance, the run is left in flight at
\* its first await and the loop of the same poller is back at its head (its
\* next claim issued with the `now` of that instant, or the loop left),
\* whatever runs of that poller are still in flight.
DispatchNotAwaited ==
    [][\A p \in PollerIds :
          ClaimApplied(p) /\ Len(runs') > Len(runs) =>
            /\ runs'[Len(runs')].pc = "findRunData"
            /\ runs'[Len(runs')].p = p
            /\ \A r \in DOMAIN runs : runs'[r] = runs[r]
            /\ poller'[p].pc \in {"claiming", "exited"}
            /\ poller'[p].pc = "claiming" => poller'[p].claimNow = now]_vars

\* A run of one instance is suspended in its sleep while a run of another
\* instance, claimed by the same poller after it, is in flight.
ClaimedWhileSuspended ==
    \E r1, r2 \in DOMAIN runs :
        /\ r1 < r2
        /\ runs[r1].p = runs[r2].p
        /\ runs[r1].w # runs[r2].w
        /\ runs[r1].pc = "goSleep"
        /\ InFlight(r2)

-----------------------------------------------------------------------------
(* The stored result *)

\* C35: once an instance is finished its stored result, which is what wait
\* returns, never changes afterwards.
ResultNeverChanges ==
    [][\A w \in WorkflowIds :
          workflows[w].hasResult =>
              /\ workflows'[w].hasResult
              /\ workflows'[w].result = workflows[w].result]_vars

-----------------------------------------------------------------------------
(* Overlapping runs *)

\* C36: where every step fn completes within timeoutInterval (here: the
\* handlers call no step at all), no instance ever has two runs in flight at
\* the same time, replays of a recorded sleep and re-claims by the poller that
\* dispatched the earlier run included.
NoTwoRunsInFlight ==
    \A r1, r2 \in DOMAIN runs :
        r1 # r2 /\ runs[r1].w = runs[r2].w => ~(InFlight(r1) /\ InFlight(r2))

\* Run r has been superseded: a later claim has been answered with its
\* instance.
Superseded(r) ==
    \E r2 \in DOMAIN runs : r2 > r /\ runs[r2].w = runs[r].w

\* C37: a run whose claim has been superseded never modifies the instance
\* document: no step it takes changes the status, timeoutAt, failures or
\* result of its instance.
SupersededRunWritesNothing ==
    [][\A r \in DOMAIN runs :
          Superseded(r) /\ Moves(r) =>
              workflows'[runs[r].w] = workflows[runs[r].w]]_vars

-----------------------------------------------------------------------------
(* Runs that fail with an infrastructure error *)

\* Run r fails with WorkflowNotFound or HandlerNotFound in this step.
FailsInfra(r) ==
    /\ r \in DOMAIN runs
    /\ runs[r].pc # "rejected"
    /\ runs'[r].pc = "rejected"
    /\ IsInfra(runs'[r].error)

\* C38: a run that fails with HandlerNotFound or WorkflowNotFound writes
\* nothing to the store.  The document of an instance whose handler is not
\* registered is changed by claims only, so it keeps status running, its
\* failures count and the timeoutAt the last claim set, never has status
\* failed, aborted or finished, and matches the claim filter whenever that
\* lease has expired.
InfraFailureWritesNothing ==
    [][/\ \A r \in DOMAIN runs :
             FailsInfra(r) => UNCHANGED <<workflows, steps, naps>>
       /\ \A w \in WorkflowIds :
             /\ workflows[w].exists /\ workflows'[w].exists
             /\ workflows[w].handlerId \notin Registered
             => /\ workflows'[w] # workflows[w] =>
                      /\ \E p \in PollerIds : ClaimApplied(p) /\ ClaimAnswer = w
                      /\ workflows'[w] =
                            [workflows[w] EXCEPT
                                !.status = "running",
                                !.timeoutAt = workflows'[w].timeoutAt]
                /\ workflows'[w].status \in {"idle", "running"}
                /\ workflows'[w].failures = 0
                /\ workflows'[w].timeoutAt < now' => w \in Due(workflows', now')]_vars

\* Two runs of an instance without a handler have failed with HandlerNotFound,
\* the second one claimed when the lease of the first had expired, and the
\* instance has status running and the lease of the second claim.
MissingHandlerReclaimed ==
    \E r1, r2 \in DOMAIN runs :
        /\ r1 < r2
        /\ runs[r1].w = runs[r2].w
        /\ runs[r1].pc = "rejected" /\ runs[r1].error.name = "HandlerNotFound"
        /\ runs[r2].pc = "rejected" /\ runs[r2].error.name = "HandlerNotFound"
        /\ workflows[runs[r1].w].status = "running"
        /\ workflows[runs[r1].w].failures = 0
        /\ workflows[runs[r1].w].timeoutAt > TimeoutInterval + 1

\* C39: poll resolves only if no run it dispatched fails with an
\* infrastructure error: a poll promise that is resolved belongs to a poller
\* none of whose runs has failed with WorkflowNotFound or HandlerNotFound.
ResolvedOnlyWithoutInfraFailure ==
    \A p \in PollerIds :
        poller[p].promise = "resolved" =>
            \A r \in DOMAIN runs :
                runs[r].p = p =>
                    ~(runs[r].pc = "rejected" /\ IsInfra(runs[r].error))

=============================================================================
